---- MODULE Spec2Model ----
(***************************************************************************)
(* Punishment log of the moderation bot: the durable store (_load, _save,  *)
(* _atomic_write), the normalization layer (_normalize_entries), the log   *)
(* API (log_punishment, user_warn_count, warn_counts and the per-day       *)
(* series of generate_warning_graph) of punishments.py, and the /warn,     *)
(* /mute and /ban command handlers and the polling loop of main.py.        *)
(*                                                                         *)
(* Python values.  A nullable value is a tuple: None is <<>> and the value *)
(* v is <<v>>.  A dict is a function whose DOMAIN is the set of its keys,  *)
(* so "key in e" is a test on DOMAIN e.  The one field that is never null  *)
(* in any document considered here, ts, is a bare integer.                 *)
(***************************************************************************)
EXTENDS Integers, Sequences, FiniteSets, TLC

VARIABLES
    disk,      \* content found at LOG_FILE (data/punishments.json)
    now,       \* the clock read by _now_ts()
    call,      \* the last API call made one at a time: arguments and outcome
    mem,       \* the in-memory dict a reader holds between normalization passes
    passes,    \* how many times _normalize_entries ran over mem
    memBefore, \* mem as it was before the latest pass
    appends,   \* completed log_punishment calls
    tmp,       \* the temporary file of the _atomic_write in progress
    writer,    \* where the process running _save is in _atomic_write
    reader,    \* where a process running _load is, and what it got
    handlers,  \* the bot's worker threads, each running one command handler
    effects,   \* commands received, platform actions done, the thread that saved last
    listener   \* where the main thread is in the polling loop of main.py

apiVars == <<call, mem, passes, memBefore, appends>>
storeVars == <<tmp, writer, reader>>
botVars == <<handlers, effects, listener>>
vars == <<disk, now, apiVars, storeVars, botVars>>

----------------------------------------------------------------------------
(* Bounds of the model *)

MaxTime == 2        \* the clock runs 1..MaxTime
MaxAppends == 2     \* entries appended on top of the initial document
MaxPasses == 2      \* normalization passes over one loaded document
MaxCommands == 2    \* commands the bot receives
MaxRetries == 3     \* the count of polling restarts is kept up to this value

----------------------------------------------------------------------------
(* Python values *)

None == <<>>
Some(v) == <<v>>

\* dict.get(key), with None as the default
Get(e, f) == IF f \in DOMAIN e THEN e[f] ELSE None

\* e.get("ts", 0)
GetTs(e) == IF "ts" \in DOMAIN e THEN e["ts"] ELSE 0

\* a JSON list of entries, and a JSON value that is no list
List(s) == [isList |-> TRUE, items |-> s]
NonList == [isList |-> FALSE, items |-> <<>>]

EmptyDoc == [k \in {} |-> List(<<>>)]

\* str(user_id)
Str(n) == CASE n = 7 -> "7" [] n = 42 -> "42" [] OTHER -> "0"

\* the "%Y-%m-%d %H:%M:%S" text of a time, and a text strptime rejects
Strftime(t) == [parses |-> TRUE, t |-> t]
JunkText == [parses |-> FALSE, t |-> 0]

Fields == {"ts", "chat_id", "user_id", "username", "moderator", "action", "reason"}

Min(a, b) == IF a < b THEN a ELSE b
Max(a, b) == IF a > b THEN a ELSE b

----------------------------------------------------------------------------
(* Durable store *)

\* What the bytes at LOG_FILE are to open() and json.load():
\*   absent       no file                      FileNotFoundError
\*   object       the JSON text of a dict
\*   partial      a strict prefix of JSON text json.JSONDecodeError
\*   nonobject    JSON text of a list          parses, is no dict
\*   undecodable  bytes that are not UTF-8     UnicodeDecodeError
\* doc is the document whose text the bytes hold (all of it, or n chunks).
Absent == [kind |-> "absent", doc |-> EmptyDoc, n |-> 0]
ObjectFile(d) == [kind |-> "object", doc |-> d, n |-> 0]
PartialFile(d, n) == [kind |-> "partial", doc |-> d, n |-> n]
NonObjectFile(d) == [kind |-> "nonobject", doc |-> d, n |-> 0]
Undecodable(d) == [kind |-> "undecodable", doc |-> d, n |-> 0]

\* _load: the exception it lets through ("" when it returns)
_load_raises(file) ==
    IF file.kind = "undecodable" THEN "UnicodeDecodeError" ELSE ""

\* _load: the dict it returns
_load(file) ==
    CASE file.kind = "absent" -> EmptyDoc
      [] file.kind = "partial" -> EmptyDoc
      [] file.kind = "nonobject" -> EmptyDoc
      [] OTHER -> file.doc

----------------------------------------------------------------------------
(* Normalization layer *)

\* e.setdefault(f, v)
SetDefault(e, f, v) ==
    IF f \in DOMAIN e THEN e
    ELSE [x \in DOMAIN e \cup {f} |-> IF x = f THEN v ELSE e[x]]

\* lines 63-69 without the test that ts is missing: every pass stamps again
DeriveTsAlways(e, t) ==
    IF "timestamp" \in DOMAIN e
    THEN [x \in DOMAIN e \cup {"ts"} |->
            IF x = "ts" THEN (IF e["timestamp"].parses THEN e["timestamp"].t ELSE t)
            ELSE e[x]]
    ELSE e

\* lines 63-69: ts from the legacy timestamp, the clock when strptime raises
DeriveTs(e, t) ==
    IF "ts" \notin DOMAIN e /\ "timestamp" \in DOMAIN e
    THEN SetDefault(e, "ts", IF e["timestamp"].parses THEN e["timestamp"].t ELSE t)
    ELSE e

\* lines 63-75 for one entry e of the group stored under top_key, at clock t
NormalizeEntry(top_key, e, t) ==
    LET e0 == DeriveTs(e, t)
        e1 == SetDefault(e0, "chat_id", None)
        e2 == SetDefault(e1, "user_id", None)
        e3 == SetDefault(e2, "username",
                         IF top_key # "unknown" THEN Some(top_key) ELSE None)
        e4 == SetDefault(e3, "moderator", None)
        e5 == SetDefault(e4, "action", None)
    IN  SetDefault(e5, "reason", None)

\* _normalize_entries(punishment_log) at clock t; values that are no list are skipped
_normalize_entries(log, t) ==
    [k \in DOMAIN log |->
        IF log[k].isList
        THEN List([i \in 1..Len(log[k].items) |-> NormalizeEntry(k, log[k].items[i], t)])
        ELSE log[k]]

----------------------------------------------------------------------------
(* Punishment log API *)

\* truthiness of a nullable int / str
TruthyInt(v) == v # None /\ v[1] # 0
TruthyStr(v) == v # None /\ v[1] # ""

\* line 95
target_key(user_id, username) ==
    IF TruthyInt(user_id) THEN Str(user_id[1])
    ELSE IF TruthyStr(username) THEN username[1] ELSE "unknown"

\* lines 97-106
NewEntry(chat_id, user_id, username, moderator_user, action, reason, ts) ==
    [timestamp |-> Strftime(ts), ts |-> ts, chat_id |-> chat_id, user_id |-> user_id,
     username |-> username, action |-> Some(action), moderator |-> Some(moderator_user),
     reason |-> Some(reason)]

\* line 109 raises AttributeError when the value under the key has no append
AppendRaises(log, key) ==
    IF key \in DOMAIN log /\ ~log[key].isList THEN "AttributeError" ELSE ""

\* line 109 with an append that skips an entry equal to the group's last one
AppendEntryDedup(log, key, entry) ==
    [k \in DOMAIN log \cup {key} |->
        IF k = key
        THEN LET old == IF key \in DOMAIN log THEN log[key].items ELSE <<>>
             IN  List(IF old # <<>> /\ old[Len(old)] = entry THEN old
                      ELSE Append(old, entry))
        ELSE log[k]]

\* line 109 with an assignment in place of the append: log[target_key] = [entry]
AppendEntryOverwrite(log, key, entry) ==
    [k \in DOMAIN log \cup {key} |-> IF k = key THEN List(<<entry>>) ELSE log[k]]

\* line 109: log.setdefault(target_key, []).append(entry)
AppendEntry(log, key, entry) ==
    [k \in DOMAIN log \cup {key} |->
        IF k = key
        THEN List(Append(IF key \in DOMAIN log THEN log[key].items ELSE <<>>, entry))
        ELSE log[k]]

\* _save by way of _atomic_write: the new text replaces the file in one rename
_save(log) == ObjectFile(log)

\* lines 123-132: does the loop count entry e
Counted(e, chat_id, user_id, since_ts) ==
    /\ Get(e, "action") = Some("warned")
    /\ Get(e, "chat_id") \in {None, chat_id}
    /\ Get(e, "user_id") \in {None, user_id}
    /\ ~(since_ts # None /\ since_ts[1] # 0 /\ GetTs(e) < since_ts[1])

RECURSIVE CountItems(_, _, _, _)
CountItems(items, chat_id, user_id, since_ts) ==
    IF items = <<>> THEN 0
    ELSE (IF Counted(Head(items), chat_id, user_id, since_ts) THEN 1 ELSE 0)
         + CountItems(Tail(items), chat_id, user_id, since_ts)

RECURSIVE CountGroups(_, _, _, _, _)
CountGroups(log, keys, chat_id, user_id, since_ts) ==
    IF keys = {} THEN 0
    ELSE LET k == CHOOSE x \in keys : TRUE
         IN  (IF log[k].isList
              THEN CountItems(log[k].items, chat_id, user_id, since_ts) ELSE 0)
             + CountGroups(log, keys \ {k}, chat_id, user_id, since_ts)

\* user_warn_count(chat_id, user_id, since_ts) over the file, at clock t
user_warn_count(file, chat_id, user_id, since_ts, t) ==
    LET log == _normalize_entries(_load(file), t)
    IN  CountGroups(log, DOMAIN log, chat_id, user_id, since_ts)

\* lines 158-162: the display label of entry e
Label(e) ==
    IF TruthyStr(Get(e, "username")) THEN "@" \o e["username"][1]
    ELSE IF TruthyInt(Get(e, "user_id")) THEN Str(e["user_id"][1])
    ELSE "unknown"

\* lines 152-157: does warn_counts count entry e
WarnCounted(e, chat_id, since_ts) ==
    /\ Get(e, "action") = Some("warned")
    /\ ~(chat_id # None /\ Get(e, "chat_id") \notin {None, chat_id})
    /\ ~(since_ts # None /\ since_ts[1] # 0 /\ GetTs(e) < since_ts[1])

\* line 163: counter[label] += 1 on a defaultdict(int), which keeps its keys in the
\* order they were first seen; the dict is the sequence of its (key, value) items
Bump(counter, label) ==
    IF \E i \in 1..Len(counter) : counter[i][1] = label
    THEN [i \in 1..Len(counter) |->
            IF counter[i][1] = label THEN <<label, counter[i][2] + 1>> ELSE counter[i]]
    ELSE Append(counter, <<label, 1>>)

\* lines 151-163: the inner loop over one group
RECURSIVE CountLabels(_, _, _, _)
CountLabels(items, counter, chat_id, since_ts) ==
    IF items = <<>> THEN counter
    ELSE CountLabels(Tail(items),
                     IF WarnCounted(Head(items), chat_id, since_ts)
                     THEN Bump(counter, Label(Head(items))) ELSE counter,
                     chat_id, since_ts)

\* lines 148-163: the loop over log.values(), keys being the keys in file order
RECURSIVE CountLabelGroups(_, _, _, _, _)
CountLabelGroups(log, keys, counter, chat_id, since_ts) ==
    IF keys = <<>> THEN counter
    ELSE CountLabelGroups(log, Tail(keys),
                          IF log[Head(keys)].isList
                          THEN CountLabels(log[Head(keys)].items, counter,
                                           chat_id, since_ts)
                          ELSE counter,
                          chat_id, since_ts)

\* line 164 without reverse=True: the item goes after the items with a count that
\* is smaller or equal
InsertAscending(sorted, item) ==
    LET k == Cardinality({i \in 1..Len(sorted) : sorted[i][2] <= item[2]})
    IN  SubSeq(sorted, 1, k) \o <<item>> \o SubSeq(sorted, k + 1, Len(sorted))

\* line 164: sorted(..., key=count, reverse=True) is stable: an item goes after the
\* items with a count that is greater or equal
InsertByCount(sorted, item) ==
    LET k == Cardinality({i \in 1..Len(sorted) : sorted[i][2] >= item[2]})
    IN  SubSeq(sorted, 1, k) \o <<item>> \o SubSeq(sorted, k + 1, Len(sorted))

RECURSIVE SortedByCount(_)
SortedByCount(items) ==
    IF items = <<>> THEN <<>>
    ELSE InsertByCount(SortedByCount(SubSeq(items, 1, Len(items) - 1)),
                       items[Len(items)])

\* line 164: items[:limit]; a negative limit counts from the end
Slice(items, limit) ==
    IF limit >= 0 THEN SubSeq(items, 1, Min(limit, Len(items)))
    ELSE SubSeq(items, 1, Max(Len(items) + limit, 0))

\* warn_counts(chat_id, since_ts, limit) over the file, whose keys come in the
\* order keys, at clock t
warn_counts(file, keys, chat_id, since_ts, limit, t) ==
    LET log == _normalize_entries(_load(file), t)
    IN  Slice(SortedByCount(CountLabelGroups(log, keys, <<>>, chat_id, since_ts)),
              limit)

\* str.lower() and str.lstrip("@"), on the usernames that occur
Lower(s) ==
    CASE s = "Alice" -> "alice" [] s = "@Alice" -> "@alice" [] OTHER -> s

LStripAt(s) ==
    CASE s \in {"@alice", "@@alice"} -> "alice"
      [] s = "@Alice" -> "Alice"
      [] s = "@bob" -> "bob"
      [] s = "@" -> ""
      [] OTHER -> s

\* lines 187-204: does generate_warning_graph count entry e
GraphCounted(e, chat_id, since_ts, user_id, username) ==
    /\ Get(e, "action") = Some("warned")
    /\ ~(chat_id # None /\ Get(e, "chat_id") \notin {None, chat_id})
    /\ ~(user_id # None /\ Get(e, "user_id") \notin {None, user_id})
    /\ ~(/\ user_id = None /\ username # None
         /\ Lower(LStripAt(IF TruthyStr(Get(e, "username")) THEN e["username"][1]
                           ELSE ""))
              # Lower(LStripAt(username[1])))
    /\ ~(since_ts # None /\ since_ts[1] # 0 /\ GetTs(e) < since_ts[1])

\* the seconds of a day, and the first days of the months of a year of 365 days
DaySeconds == 86400
MonthStarts == <<0, 31, 59, 90, 120, 151, 181, 212, 243, 273, 304, 334>>

\* line 206: datetime.fromtimestamp(ts).date() in the local time zone, as the
\* number of the day counted from 1970-01-01
DayNumber(ts, utc_offset) == (ts + utc_offset) \div DaySeconds

\* line 206: date.isoformat(), the text YYYY-MM-DD as its characters; the digits
\* are their values and "-", which sorts before every digit, is -1.  The years
\* 1969 to 1971 have 365 days.
Isoformat(day) ==
    LET y == 1970 + (day \div 365)
        doy == day % 365
        m == CHOOSE i \in 1..12 :
                 /\ MonthStarts[i] <= doy
                 /\ (i = 12 \/ doy < MonthStarts[i + 1])
        d == doy - MonthStarts[m] + 1
    IN  << y \div 1000, (y \div 100) % 10, (y \div 10) % 10, y % 10, -1,
           m \div 10, m % 10, -1, d \div 10, d % 10 >>

\* the order of str: the first character that differs decides, a prefix is smaller
StrLess(a, b) ==
    \/ \E i \in 1..Min(Len(a), Len(b)) :
          /\ a[i] < b[i]
          /\ \A j \in 1..(i - 1) : a[j] = b[j]
    \/ /\ Len(a) < Len(b)
       /\ \A j \in 1..Len(a) : a[j] = b[j]

\* lines 186-207: the inner loop over one group; per_day is a defaultdict(int)
RECURSIVE CountDays(_, _, _, _, _, _, _, _)
CountDays(items, per_day, chat_id, since_ts, user_id, username, t, utc_offset) ==
    IF items = <<>> THEN per_day
    ELSE LET e == Head(items)
             d == Isoformat(DayNumber(IF "ts" \in DOMAIN e THEN e["ts"] ELSE t,
                                      utc_offset))
         IN  CountDays(Tail(items),
                       IF GraphCounted(e, chat_id, since_ts, user_id, username)
                       THEN Bump(per_day, d) ELSE per_day,
                       chat_id, since_ts, user_id, username, t, utc_offset)

\* lines 183-207: the loop over log.values()
RECURSIVE CountDayGroups(_, _, _, _, _, _, _, _, _)
CountDayGroups(log, keys, per_day, chat_id, since_ts, user_id, username, t, utc_offset) ==
    IF keys = <<>> THEN per_day
    ELSE CountDayGroups(log, Tail(keys),
                        IF log[Head(keys)].isList
                        THEN CountDays(log[Head(keys)].items, per_day, chat_id,
                                       since_ts, user_id, username, t, utc_offset)
                        ELSE per_day,
                        chat_id, since_ts, user_id, username, t, utc_offset)

\* line 209: sorted(per_day.keys()) puts an item before the first greater one
InsertByDate(sorted, item) ==
    LET k == Cardinality({i \in 1..Len(sorted) : ~StrLess(item[1], sorted[i][1])})
    IN  SubSeq(sorted, 1, k) \o <<item>> \o SubSeq(sorted, k + 1, Len(sorted))

RECURSIVE SortedByDate(_)
SortedByDate(items) ==
    IF items = <<>> THEN <<>>
    ELSE InsertByDate(SortedByDate(SubSeq(items, 1, Len(items) - 1)),
                      items[Len(items)])

\* generate_warning_graph lines 180-210: dates and counts, the series the chart is
\* drawn from
generate_warning_graph(file, keys, chat_id, since_ts, user_id, username, t, utc_offset) ==
    LET log == _normalize_entries(_load(file), t)
        per_day == SortedByDate(CountDayGroups(log, keys, <<>>, chat_id, since_ts,
                                               user_id, username, t, utc_offset))
    IN  [dates |-> [i \in 1..Len(per_day) |-> per_day[i][1]],
         counts |-> [i \in 1..Len(per_day) |-> per_day[i][2]]]

----------------------------------------------------------------------------
(* Documents the backing file may hold when the program starts *)

Modern(chat, user, name, action, ts) ==
    NewEntry(Some(chat), Some(user), name, "@mod", action, "spam", ts)

\* rows written before the fields were introduced
LegacyDated == [action |-> Some("warned"), timestamp |-> Strftime(2)]
LegacyBare == [action |-> Some("warned")]

SeedEntries ==
    { Modern(1, 42, Some("alice"), "warned", 1),
      Modern(2, 42, Some("alice"), "warned", 2),
      Modern(1, 42, Some("alice"), "muted", 1),
      Modern(1, 7, None, "warned", -1),
      LegacyDated,
      LegacyBare }

SeedKeys == {"42", "alice"}

SeedGroups == {NonList} \cup {List(<<e>>) : e \in SeedEntries}

\* no group, one group or two groups
SeedDocs ==
    {EmptyDoc}
    \cup {[k \in {key} |-> g] : key \in SeedKeys, g \in SeedGroups}
    \cup {[k \in SeedKeys |-> IF k = "42" THEN g1 ELSE g2] :
             g1 \in SeedGroups, g2 \in {List(<<LegacyDated>>), List(<<LegacyBare>>)}}

OneRow == [k \in {"42"} |-> List(<<Modern(1, 42, Some("alice"), "warned", 1)>>)]

SeedFiles ==
    {NonObjectFile(OneRow), PartialFile(OneRow, 1), Undecodable(OneRow), Absent}
    \cup {ObjectFile(d) : d \in SeedDocs}

Chats == {1, 2}
Users == {42, 7}
Sinces == {None, Some(0), Some(2)}

\* the username the platform reports for a user
UsernameOf(u) == IF u = 42 THEN Some("alice") ELSE None

----------------------------------------------------------------------------
(* The parts of the state at rest *)

NoTmp == [kind |-> "absent", doc |-> EmptyDoc, n |-> 0]
WriterIdle == [pc |-> "idle", data |-> EmptyDoc, prev |-> Absent, renamed |-> FALSE]
ReaderIdle == [pc |-> "idle", fd |-> "closed", inode |-> Absent, seen |-> "",
               ret |-> EmptyDoc, window |-> {}, during |-> "idle"]
HandlerIdle == [pc |-> "idle", cmd |-> "", target |-> 0, key |-> "", entry |-> <<>>,
                log |-> EmptyDoc, prior |-> Absent, wrote |-> FALSE, acted |-> FALSE,
                mustReject |-> FALSE, outcome |-> "", total |-> 0,
                counted |-> Absent, overlapped |-> FALSE]

\* the main thread before the polling loop is entered
ListenerIdle == [pc |-> "idle", retries |-> 0, slept |-> 0, cause |-> ""]

Threads == {1, 2}

StoreAtRest ==
    /\ tmp = NoTmp
    /\ writer = WriterIdle
    /\ reader = ReaderIdle

BotAtRest ==
    /\ handlers = [h \in Threads |-> HandlerIdle]
    /\ effects = [received |-> 0, muted |-> 0, banned |-> 0, lastSaver |-> 0]
    /\ listener = ListenerIdle

----------------------------------------------------------------------------
(* The API called one call at a time *)

NoCall == [op |-> "none"]

Init ==
    /\ disk \in SeedFiles
    /\ now = 1
    /\ call = NoCall
    /\ mem = EmptyDoc
    /\ passes = 0
    /\ memBefore = EmptyDoc
    /\ appends = 0
    /\ StoreAtRest
    /\ BotAtRest

\* time passes
Tick ==
    /\ now < MaxTime
    /\ now' = now + 1
    /\ UNCHANGED <<disk, apiVars, storeVars, botVars>>

\* _load()
LoadCall ==
    /\ call' = [op |-> "_load", file |-> disk, raised |-> _load_raises(disk),
                ret |-> IF _load_raises(disk) = "" THEN _load(disk) ELSE EmptyDoc]
    /\ UNCHANGED <<disk, now, mem, passes, memBefore, appends, storeVars, botVars>>

\* log_punishment(chat_id=, user_id=, username=, moderator_user=, action=, reason=)
log_punishment(chat_id, user_id, username, action) ==
    LET entry == NewEntry(chat_id, user_id, username, "@mod", action, "spam", now)
        key == target_key(user_id, username)
        log == _load(disk)
        raised == IF _load_raises(disk) # "" THEN _load_raises(disk)
                  ELSE AppendRaises(log, key)
    IN  /\ appends < MaxAppends
        /\ disk' = IF raised = "" THEN _save(AppendEntry(log, key, entry)) ELSE disk
        /\ appends' = appends + 1
        /\ call' = [op |-> "log_punishment", file |-> disk, raised |-> raised,
                    key |-> key, entry |-> entry, chat_id |-> chat_id,
                    user_id |-> user_id, at |-> now]
        /\ UNCHANGED <<now, mem, passes, memBefore, storeVars, botVars>>

\* user_warn_count(chat_id, user_id, since_ts)
UserWarnCountCall(chat_id, user_id, since_ts) ==
    /\ call' = [op |-> "user_warn_count", file |-> disk, raised |-> _load_raises(disk),
                chat_id |-> chat_id, user_id |-> user_id, since_ts |-> since_ts,
                at |-> now,
                ret |-> IF _load_raises(disk) = ""
                        THEN user_warn_count(disk, chat_id, user_id, since_ts, now)
                        ELSE 0]
    /\ UNCHANGED <<disk, now, mem, passes, memBefore, appends, storeVars, botVars>>

\* the calls made: chat_id, user_id, username, action.  The handlers pass a member
\* of the chat; the function also takes a target known by username only.
AppendArgs ==
    { <<Some(1), Some(42), Some("alice"), "warned">>,
      <<Some(2), Some(42), Some("alice"), "warned">>,
      <<Some(1), Some(42), Some("alice"), "muted">>,
      <<Some(1), Some(7), None, "warned">>,
      <<Some(1), None, Some("alice"), "warned">> }

Next ==
    \/ Tick
    \/ LoadCall
    \/ \E a \in AppendArgs : log_punishment(a[1], a[2], a[3], a[4])

Spec == Init /\ [][Next]_vars

----------------------------------------------------------------------------
(* The read-side queries applied to stored documents *)

RECURSIVE AppendAll(_, _)
AppendAll(log, entries) ==
    IF entries = <<>> THEN log
    ELSE AppendAll(AppendEntry(log, target_key(Head(entries)["user_id"],
                                              Head(entries)["username"]),
                               Head(entries)),
                   Tail(entries))

\* three warns of user 42 in chat 1, then one in chat 2
ScenarioDoc ==
    AppendAll(EmptyDoc, << Modern(1, 42, Some("alice"), "warned", 1),
                           Modern(1, 42, Some("alice"), "warned", 1),
                           Modern(1, 42, Some("alice"), "warned", 1),
                           Modern(2, 42, Some("alice"), "warned", 1) >>)

\* the scenario, then two warns of user 7, who has no username, a mute, and a
\* legacy row of an unknown target
BoardDoc ==
    AppendEntry(AppendAll(ScenarioDoc, << Modern(1, 7, None, "warned", 2),
                                          Modern(2, 7, None, "warned", 1),
                                          Modern(1, 7, None, "muted", 1) >>),
                "unknown", LegacyBare)

\* the orders in which a JSON text may list the keys of a document
KeyOrders(doc) ==
    {o \in [1..Cardinality(DOMAIN doc) -> DOMAIN doc] :
        \A i, j \in DOMAIN o : i # j => o[i] # o[j]}

Limits == {-1, 0, 1, 2, 10}

\* warns spread over four days of 1970, stored under keys whose order is not the
\* order of the days, with usernames in several spellings and a row of a target
\* known by nothing
GraphDoc ==
    AppendAll(EmptyDoc,
        << Modern(1, 42, Some("alice"), "warned", 31 * DaySeconds + 5),
           Modern(1, 42, Some("Alice"), "warned", 9 * DaySeconds),
           Modern(2, 42, Some("alice"), "warned", 9 * DaySeconds + 7),
           Modern(1, 7, None, "warned", 2 * DaySeconds),
           NewEntry(Some(1), None, Some("@alice"), "@mod", "warned", "spam",
                    DaySeconds - 1),
           NewEntry(Some(1), None, None, "@mod", "warned", "spam",
                    2 * DaySeconds + 1) >>)

\* since_ts, which the callers set to the time a window before now, and the
\* offsets of the local time zone from UTC
GraphSinces == {None, Some(2), Some(10 * DaySeconds)}
UtcOffsets == {0, 12600}

\* the single-user filters: (user_id, username)
UserFilters ==
    { <<None, None>>, <<Some(42), None>>, <<Some(7), Some("alice")>>,
      <<None, Some("alice")>>, <<None, Some("@Alice")>>, <<None, Some("7")>> }

InitQuery ==
    /\ disk \in SeedFiles \cup {ObjectFile(ScenarioDoc), ObjectFile(BoardDoc),
                              ObjectFile(GraphDoc)}
    /\ now = 1
    /\ call = NoCall
    /\ mem = EmptyDoc
    /\ passes = 0
    /\ memBefore = EmptyDoc
    /\ appends = 0
    /\ StoreAtRest
    /\ BotAtRest

\* warn_counts(chat_id, since_ts, limit)
WarnCountsCall(chat_id, since_ts, limit) ==
    /\ \E keys \in KeyOrders(_load(disk)) :
          call' = [op |-> "warn_counts", file |-> disk, raised |-> _load_raises(disk),
                   chat_id |-> chat_id, since_ts |-> since_ts, limit |-> limit,
                   at |-> now,
                   ret |-> IF _load_raises(disk) = ""
                           THEN warn_counts(disk, keys, chat_id, since_ts, limit, now)
                           ELSE <<>>]
    /\ UNCHANGED <<disk, now, mem, passes, memBefore, appends, storeVars, botVars>>

\* generate_warning_graph(chat_id, since_ts, user_id, username), up to line 210
GraphCall(chat_id, since_ts, user_id, username, utc_offset) ==
    /\ \E keys \in KeyOrders(_load(disk)) :
          call' = [op |-> "generate_warning_graph", file |-> disk,
                   raised |-> _load_raises(disk), chat_id |-> chat_id,
                   since_ts |-> since_ts, user_id |-> user_id, username |-> username,
                   at |-> now, utc_offset |-> utc_offset,
                   ret |-> IF _load_raises(disk) = ""
                           THEN generate_warning_graph(disk, keys, chat_id, since_ts,
                                                       user_id, username, now,
                                                       utc_offset)
                           ELSE [dates |-> <<>>, counts |-> <<>>]]
    /\ UNCHANGED <<disk, now, mem, passes, memBefore, appends, storeVars, botVars>>

\* one query is made on the stored document, at any time
FirstCall == call.op = "none"

NextQuery ==
    \/ Tick
    \/ \E c \in Chats, u \in Users, s \in Sinces :
          FirstCall /\ UserWarnCountCall(Some(c), Some(u), s)
    \/ \E c \in {None} \cup {Some(x) : x \in Chats}, s \in Sinces, l \in Limits :
          FirstCall /\ WarnCountsCall(c, s, l)
    \/ \E c \in {None} \cup {Some(x) : x \in Chats}, s \in GraphSinces,
          f \in UserFilters, z \in UtcOffsets :
          FirstCall /\ GraphCall(c, s, f[1], f[2], z)

SpecQuery == InitQuery /\ [][NextQuery]_vars

----------------------------------------------------------------------------
(* Properties of the store and the log API *)

\* the rows of a document, as (group key, position) pairs
Rows(doc) ==
    UNION {{<<k, i>> : i \in 1..Len(doc[k].items)} :
              k \in {x \in DOMAIN doc : doc[x].isList}}

\* a JSON object whose values are all lists
WellFormed(file) ==
    /\ file.kind = "object"
    /\ \A k \in DOMAIN file.doc : file.doc[k].isList

\* C3: with appends run one at a time on a well-formed document, the warn count of
\* the entry's chat and user right after log_punishment is its value right before
\* plus 1 when the action is "warned" and the same value otherwise; an identical
\* repeated append adds 1 again.
C3_AppendMonotonic ==
    (call.op = "log_punishment" /\ WellFormed(call.file)) =>
        /\ call.raised = ""
        /\ user_warn_count(disk, call.chat_id, call.user_id, None, now)
             = user_warn_count(call.file, call.chat_id, call.user_id, None, call.at)
               + (IF call.entry["action"] = Some("warned") THEN 1 ELSE 0)

\* a second, identical "warned" append has just been counted
C3_Witness ==
    /\ call.op = "log_punishment" /\ WellFormed(call.file)
    /\ call.entry["action"] = Some("warned")
    /\ call.key \in DOMAIN call.file.doc
    /\ Len(call.file.doc[call.key].items) > 0
    /\ call.file.doc[call.key].items[Len(call.file.doc[call.key].items)] = call.entry
    /\ user_warn_count(disk, call.chat_id, call.user_id, None, now) >= 2

\* The ts the claims speak of: the stored ts, else the legacy timestamp's time,
\* else the time of the read.
SpecTs(e, t) ==
    IF "ts" \in DOMAIN e THEN e["ts"]
    ELSE IF "timestamp" \in DOMAIN e /\ e["timestamp"].parses THEN e["timestamp"].t
    ELSE t

\* the filter as C4 words it
C4_Passes(e, chat_id, user_id, since_ts, t) ==
    /\ Get(e, "action") = Some("warned")
    /\ (Get(e, "chat_id") = None \/ Get(e, "chat_id") = chat_id)
    /\ (Get(e, "user_id") = None \/ Get(e, "user_id") = user_id)
    /\ (since_ts = None \/ SpecTs(e, t) >= since_ts[1])

\* C4: user_warn_count returns exactly the number of stored entries, over all
\* groups, that are "warned", whose chat_id is null or the queried one, whose
\* user_id is null or the queried one, and whose ts is >= since_ts when since_ts
\* is not null.
C4_CountsExactlyMatching ==
    (call.op = "user_warn_count" /\ call.file.kind = "object") =>
        /\ call.raised = ""
        /\ call.ret = Cardinality({r \in Rows(call.file.doc) :
                         C4_Passes(call.file.doc[r[1]].items[r[2]], call.chat_id,
                                   call.user_id, call.since_ts, call.at)})

\* C6: _load never raises; it returns the empty mapping for a file that is absent,
\* unparsable or no JSON object, and the stored mapping otherwise.
C6_LoadNeverRaises ==
    call.op = "_load" =>
        /\ call.raised = ""
        /\ call.ret = IF call.file.kind = "object" THEN call.file.doc ELSE EmptyDoc

\* the entries a file holds: those of the JSON text in it
StoredDoc(file) ==
    IF file.kind \in {"object", "nonobject"} THEN file.doc ELSE EmptyDoc

\* one call of log_punishment kept everything stored and added its entry at the end
\* of its group
KeptAndAppended(old, new, key, entry) ==
    /\ DOMAIN new = DOMAIN old \cup {key}
    /\ \A k \in DOMAIN old : k # key => new[k] = old[k]
    /\ new[key].isList
    /\ Len(new[key].items) = 1 + (IF key \in DOMAIN old THEN Len(old[key].items) ELSE 0)
    /\ key \in DOMAIN old =>
          /\ old[key].isList
          /\ \A i \in 1..Len(old[key].items) : new[key].items[i] = old[key].items[i]
    /\ new[key].items[Len(new[key].items)] = entry
    /\ Cardinality(Rows(new)) = Cardinality(Rows(old)) + 1

LabelTotal(doc, label, since_ts) ==
    Cardinality({r \in Rows(doc) :
        /\ WarnCounted(doc[r[1]].items[r[2]], None, since_ts)
        /\ Label(doc[r[1]].items[r[2]]) = label})

\* what C12 says of the sequence ret returned for cap, the number of pairs allowed
TopWarnedShape(cap) ==
    /\ call.raised = ""
    /\ \A i \in 1..(Len(call.ret) - 1) : call.ret[i][2] >= call.ret[i + 1][2]
    /\ Len(call.ret) <= cap
    /\ call.chat_id = None =>
          \A i \in 1..Len(call.ret) :
              call.ret[i][2] = LabelTotal(_normalize_entries(call.file.doc, call.at),
                                         call.ret[i][1], call.since_ts)
    /\ (call.chat_id = None /\ call.file = ObjectFile(ScenarioDoc)
          /\ call.since_ts \in {None, Some(0)} /\ call.limit >= 1) =>
          call.ret = << <<"@alice", 4>> >>

\* C12 as stated: for every stored document and every limit, warn_counts returns
\* pairs with counts non-increasing and at most limit of them (no pair at all when
\* the limit is below 1); with chat_id None the count of a label sums its
\* warnings over all chats, 4 for user 42's label in the scenario of three warns
\* in chat 1 and one in chat 2.
C12_TopWarnedAnyLimit ==
    (call.op = "warn_counts" /\ call.file.kind = "object") =>
        TopWarnedShape(Max(call.limit, 0))

\* C12 amended: the same for every limit that is not negative.
C12_TopWarnedLimitNotNegative ==
    (call.op = "warn_counts" /\ call.file.kind = "object" /\ call.limit >= 0) =>
        TopWarnedShape(call.limit)

\* the board of three labels was asked for over all chats, its keys stored in an
\* order that is not the order of the counts, and cut to the two highest counts
C12_Witness ==
    /\ call.op = "warn_counts" /\ call.file = ObjectFile(BoardDoc)
    /\ call.chat_id = None /\ call.since_ts = None /\ call.limit = 2
    /\ call.ret = << <<"@alice", 4>>, <<"7", 2>> >>

RECURSIVE SumSeq(_)
SumSeq(q) == IF q = <<>> THEN 0 ELSE Head(q) + SumSeq(Tail(q))

\* a text without one leading "@"
StripOneAt(s) ==
    CASE s = "@@alice" -> "@alice"
      [] s = "@alice" -> "alice"
      [] s = "@Alice" -> "Alice"
      [] s = "@bob" -> "bob"
      [] s = "@" -> ""
      [] OTHER -> s

\* the single-user filter as C14 words it
C14_Passes(e, user_id, username) ==
    IF user_id # None THEN Get(e, "user_id") \in {None, user_id}
    ELSE IF username # None
         THEN IF Get(e, "username") = None THEN Get(e, "user_id") = None
              ELSE Lower(StripOneAt(e["username"][1])) = Lower(StripOneAt(username[1]))
         ELSE TRUE

\* the rows of the document a query read that satisfy pass
PassingRows(pass(_)) ==
    LET doc == _normalize_entries(call.file.doc, call.at)
    IN  {r \in Rows(doc) : pass(doc[r[1]].items[r[2]])}

\* C14: in the per-day query an entry passes the single-user filter iff, user_id
\* being given, its user_id is null or equal to it, and, only username being
\* given, its stored username equals the queried one without regard to case and
\* to one leading "@", an entry without stored username passing exactly when its
\* user_id is null too.  With no chat and no time filter the series counts the
\* "warned" entries that pass.
C14_SingleUserFilter ==
    (/\ call.op = "generate_warning_graph" /\ call.file.kind = "object"
     /\ call.chat_id = None /\ call.since_ts = None) =>
        /\ call.raised = ""
        /\ SumSeq(call.ret.counts)
             = Cardinality(PassingRows(LAMBDA e :
                   /\ Get(e, "action") = Some("warned")
                   /\ C14_Passes(e, call.user_id, call.username)))

\* the day a text YYYY-MM-DD names, counted from 1970-01-01
IsoDay(iso) ==
    LET y == 1000 * iso[1] + 100 * iso[2] + 10 * iso[3] + iso[4]
        m == 10 * iso[6] + iso[7]
        d == 10 * iso[9] + iso[10]
    IN  (y - 1970) * 365 + MonthStarts[m] + d - 1

\* the chat, user and time filters of the per-day query as the claims word them
C13_Passes(e) ==
    /\ Get(e, "action") = Some("warned")
    /\ (call.chat_id = None \/ Get(e, "chat_id") \in {None, call.chat_id})
    /\ C14_Passes(e, call.user_id, call.username)
    /\ (call.since_ts = None \/ SpecTs(e, call.at) >= call.since_ts[1])

\* what C13 says of the series a query returned, the filters being pass
SparseOrdered(pass(_)) ==
    LET doc == _normalize_entries(call.file.doc, call.at)
        dates == call.ret.dates
        counts == call.ret.counts
    IN  /\ call.raised = ""
        /\ Len(dates) = Len(counts)
        /\ \A i, j \in 1..Len(dates) : i < j => IsoDay(dates[i]) < IsoDay(dates[j])
        /\ \A i \in 1..Len(counts) : counts[i] > 0
        /\ \A i \in 1..Len(dates) :
              \E r \in PassingRows(pass) :
                  IsoDay(dates[i]) = DayNumber(SpecTs(doc[r[1]].items[r[2]], call.at),
                                               call.utc_offset)
        /\ SumSeq(counts) = Cardinality(PassingRows(pass))

\* C13: the per-day series is sparse and ordered: for every stored document and
\* every combination of filters the dates are strictly increasing, every count is
\* above 0, each date is the day of at least one "warned" entry that passes the
\* chat, user and time filters, and the counts add up to the number of entries
\* that pass.
C13_SparseOrderedSeries ==
    (call.op = "generate_warning_graph" /\ call.file.kind = "object") =>
        SparseOrdered(C13_Passes)

----------------------------------------------------------------------------
(* The normalization layer applied to legacy documents *)

\* every field an entry may carry, with the value it has when present
FullEntry(stamp) ==
    [timestamp |-> stamp, ts |-> 1, chat_id |-> Some(1), user_id |-> Some(42),
     username |-> Some("bob"), action |-> Some("warned"), moderator |-> Some("@mod"),
     reason |-> Some("spam")]

Restrict(e, keep) == [f \in keep |-> e[f]]

\* entries with any subset of the fields, the legacy timestamp well formed or not
RawEntries ==
    {Restrict(FullEntry(stamp), keep) :
        stamp \in {Strftime(1), JunkText}, keep \in SUBSET (Fields \cup {"timestamp"})}

RawDocs ==
    {[k \in {key} |-> List(<<e>>)] : key \in {"alice", "unknown"}, e \in RawEntries}
    \cup {[k \in {"alice", "unknown"} |->
             IF k = "alice" THEN List(<<LegacyDated, LegacyBare>>) ELSE NonList]}

InitNorm ==
    /\ disk \in {ObjectFile(d) : d \in RawDocs}
    /\ now = 1
    /\ call = NoCall
    /\ mem = EmptyDoc
    /\ passes = 0
    /\ memBefore = EmptyDoc
    /\ appends = 0
    /\ StoreAtRest
    /\ BotAtRest

\* log = _load()
ReadLog ==
    /\ call.op = "none"
    /\ mem' = _load(disk)
    /\ call' = [op |-> "_load", at |-> now]
    /\ UNCHANGED <<disk, now, passes, memBefore, appends, storeVars, botVars>>

\* log = _normalize_entries(log), which rewrites the entries in place
NormalizePass ==
    /\ call.op # "none"
    /\ passes < MaxPasses
    /\ memBefore' = mem
    /\ mem' = _normalize_entries(mem, now)
    /\ passes' = passes + 1
    /\ call' = [op |-> "_normalize_entries", at |-> now]
    /\ UNCHANGED <<disk, now, appends, storeVars, botVars>>

NextNorm ==
    \/ Tick
    \/ ReadLog
    \/ NormalizePass

SpecNorm == InitNorm /\ [][NextNorm]_vars

\* C5: after normalization every entry has the seven fields, and an entry stored
\* without ts has the time of its legacy timestamp when it has one that parses
\* and the current time otherwise.
C5_AllSevenFields ==
    passes = 1 =>
        \A r \in Rows(mem) :
            LET e == mem[r[1]].items[r[2]]
                raw == memBefore[r[1]].items[r[2]]
            IN  /\ Fields \subseteq DOMAIN e
                /\ "ts" \notin DOMAIN raw => e["ts"] = SpecTs(raw, call.at)

\* C10: a second normalization pass changes no field of any entry.
C10_NormalizeIdempotent ==
    passes >= 2 => mem = memBefore

\* the first pass stamped the clock on an entry, and the second ran at a later time
C10_Witness ==
    /\ passes = 2
    /\ mem # _load(disk)
    /\ \E r \in Rows(mem) :
          /\ "ts" \notin DOMAIN disk.doc[r[1]].items[r[2]]
          /\ "ts" \in DOMAIN mem[r[1]].items[r[2]]
          /\ mem[r[1]].items[r[2]]["ts"] < now
          /\ ~disk.doc[r[1]].items[r[2]]["timestamp"].parses

----------------------------------------------------------------------------
(* _atomic_write step by step, next to a process that reads the file *)

TwoRows == AppendEntry(OneRow, "7", Modern(1, 7, None, "muted", 1))

\* the documents _save is given
StoreDocs == {EmptyDoc, OneRow, TwoRows}

\* the blocks in which the buffered text of json.dump reaches the file
Chunks(doc) == 1 + Cardinality(Rows(doc))

\* line 27 runs once the with block has written all of the text and closed the file;
\* variant: os.replace inside the with block, before the text is flushed
DumpCompleteUnflushed(file) == file.kind # "absent"

\* line 27 runs once the with block has written all of the text and closed the file
DumpComplete(file) == file.kind = "object"

InitStore ==
    /\ disk \in {Absent, ObjectFile(OneRow)}
    /\ now = 1
    /\ call = NoCall
    /\ mem = EmptyDoc
    /\ passes = 0
    /\ memBefore = EmptyDoc
    /\ appends = 0
    /\ StoreAtRest
    /\ BotAtRest

\* line 23: tempfile.mkstemp creates an empty file under a fresh name
Mkstemp(data) ==
    /\ writer.pc = "idle"
    /\ tmp' = PartialFile(data, 0)
    /\ writer' = [pc |-> "dump", data |-> data, prev |-> disk, renamed |-> FALSE]
    /\ UNCHANGED <<disk, now, apiVars, reader, botVars>>

\* lines 25-26: one more block of the text reaches the temporary file; the last
\* one completes it and the with block closes it
WriteChunk ==
    /\ writer.pc = "dump"
    /\ tmp.kind = "partial"
    /\ tmp' = IF tmp.n + 1 < Chunks(writer.data)
              THEN PartialFile(writer.data, tmp.n + 1)
              ELSE ObjectFile(writer.data)
    /\ UNCHANGED <<disk, now, apiVars, writer, reader, botVars>>

\* lines 25-28: a write raises (no space left); control goes to the finally block
DumpRaises ==
    /\ writer.pc = "dump"
    /\ tmp.kind = "partial"
    /\ writer' = [writer EXCEPT !.pc = "cleanup"]
    /\ UNCHANGED <<disk, now, apiVars, tmp, reader, botVars>>

\* line 27: os.replace(tmp_path, path).  A process that has the old file open keeps
\* reading the old file.
Replace ==
    /\ writer.pc = "dump"
    /\ DumpComplete(tmp)
    /\ disk' = tmp
    /\ tmp' = NoTmp
    /\ writer' = [writer EXCEPT !.pc = "cleanup", !.renamed = TRUE]
    /\ reader' = IF reader.pc = "opened"
                 THEN [reader EXCEPT
                         !.fd = IF reader.fd = "path" THEN "unlinked" ELSE reader.fd,
                         !.inode = IF reader.fd = "path" THEN disk ELSE reader.inode,
                         !.window = reader.window \cup {writer.data}]
                 ELSE reader
    /\ UNCHANGED <<now, apiVars, botVars>>

\* lines 28-33: the finally block removes the temporary file if it is still there
Cleanup ==
    /\ writer.pc = "cleanup"
    /\ tmp' = NoTmp
    /\ writer' = WriterIdle
    /\ UNCHANGED <<disk, now, apiVars, reader, botVars>>

\* the writing process is killed: nothing more runs, not even the finally block
Crash ==
    /\ writer.pc \in {"dump", "cleanup"}
    /\ writer' = [writer EXCEPT !.pc = "crashed"]
    /\ UNCHANGED <<disk, now, apiVars, tmp, reader, botVars>>

\* the bot is started again; the stale temporary file keeps its own name and no
\* later mkstemp returns it
Restart ==
    /\ writer.pc = "crashed"
    /\ writer' = WriterIdle
    /\ tmp' = NoTmp
    /\ UNCHANGED <<disk, now, apiVars, reader, botVars>>

\* line 39: open(LOG_FILE); FileNotFoundError makes _load return {}
OpenLog ==
    /\ reader.pc = "idle"
    /\ reader' = IF disk.kind = "absent"
                 THEN [ReaderIdle EXCEPT !.pc = "done", !.seen = "absent",
                                         !.window = {EmptyDoc}, !.during = writer.pc]
                 ELSE [ReaderIdle EXCEPT !.pc = "opened", !.fd = "path",
                                         !.window = {_load(disk)},
                                         !.during = writer.pc]
    /\ UNCHANGED <<disk, now, apiVars, tmp, writer, botVars>>

\* lines 40-43: json.load reads the open file to its end
ReadLogFile ==
    /\ reader.pc = "opened"
    /\ LET content == IF reader.fd = "path" THEN disk ELSE reader.inode
       IN  reader' = [reader EXCEPT !.pc = "done", !.fd = "closed", !.inode = Absent,
                                    !.seen = content.kind, !.ret = _load(content)]
    /\ UNCHANGED <<disk, now, apiVars, tmp, writer, botVars>>

\* _load has returned
LoadReturns ==
    /\ reader.pc = "done"
    /\ reader' = ReaderIdle
    /\ UNCHANGED <<disk, now, apiVars, tmp, writer, botVars>>

NextStore ==
    \/ \E d \in StoreDocs : Mkstemp(d)
    \/ WriteChunk
    \/ DumpRaises
    \/ Replace
    \/ Cleanup
    \/ Crash
    \/ Restart
    \/ OpenLog
    \/ ReadLogFile
    \/ LoadReturns

SpecStore == InitStore /\ [][NextStore]_vars

\* C1: at every step of a save a concurrent load returns a complete document, the
\* previous one or one that replaced it while the load ran, never a partial one;
\* and until the rename, also after a crash, the backing file is the previous
\* document unchanged.
C1_AtomicSave ==
    /\ reader.pc = "done" =>
          /\ reader.seen # "partial"
          /\ reader.ret \in reader.window
    /\ (writer.pc \in {"dump", "crashed"} /\ ~writer.renamed) => disk = writer.prev

\* the writer was killed with the temporary file partly written, and a load that
\* began during that save returned the previous document
C1_Witness ==
    /\ writer.pc = "crashed" /\ ~writer.renamed
    /\ tmp.kind = "partial" /\ tmp.n > 0
    /\ writer.data # _load(disk)
    /\ reader.pc = "done" /\ reader.during = "dump"
    /\ reader.ret = OneRow

----------------------------------------------------------------------------
(* The /warn, /mute and /ban handlers of main.py, one per worker thread *)

IsGroup(chat_type) == chat_type \in {"group", "supergroup"}

\* is_admin with the lookup's exception taken for an administrator
is_admin_or_error(status) == status \in {"administrator", "creator", "error"}

\* is_admin: status is what get_chat_member reports, "error" when it raises
is_admin(status) == status \in {"administrator", "creator"}

\* extract_target_from_entities: (uid, uname)
extract_target_from_entities(ent) ==
    CASE ent = "text_mention" -> <<Some(42), Some("alice")>>
      [] ent = "mention" -> <<None, Some("alice")>>
      [] OTHER -> <<None, None>>

\* lines 115-126: the target's user id, None when there is no target
ResolveTarget(ent, lookup_ok, reply) ==
    LET uid == extract_target_from_entities(ent)[1]
        target == IF TruthyInt(uid) /\ lookup_ok THEN uid ELSE None
    IN  IF target = None /\ reply # None THEN reply ELSE target

\* lines 110-129: the early return taken, "" when the command goes ahead
RejectReason(chat_type, status, target) ==
    IF ~IsGroup(chat_type) THEN "not_group"
    ELSE IF ~is_admin(status) THEN "not_admin"
    ELSE IF target = None THEN "no_target"
    ELSE ""

ActionOf(cmd) ==
    CASE cmd = "warn" -> "warned" [] cmd = "mute" -> "muted" [] OTHER -> "banned"

Commands == {"warn", "mute", "ban"}
ChatTypes == {"private", "group", "supergroup"}
Statuses == {"administrator", "creator", "member", "error"}
Entities == {"none", "mention", "text_mention"}

InitBot ==
    /\ disk \in {Absent, ObjectFile(OneRow), ObjectFile([k \in {"7"} |-> NonList])}
    /\ now = 1
    /\ call = NoCall
    /\ mem = EmptyDoc
    /\ passes = 0
    /\ memBefore = EmptyDoc
    /\ appends = 0
    /\ StoreAtRest
    /\ BotAtRest

\* lines 108-131 (157-181, 213-236): a worker thread takes a command and runs the
\* handler up to its first effect
Receive(h, cmd, chat_type, status, ent, lookup_ok, reply) ==
    LET target == ResolveTarget(ent, lookup_ok, reply)
        reason == RejectReason(chat_type, status, target)
        rejectable == \/ chat_type \notin {"group", "supergroup"}
                      \/ status \notin {"administrator", "creator"}
                      \/ (~(ent = "text_mention" /\ lookup_ok) /\ reply = None)
    IN  /\ handlers[h].pc = "idle"
        /\ effects.received < MaxCommands
        /\ effects' = [effects EXCEPT !.received = @ + 1]
        /\ handlers' = [handlers EXCEPT ![h] =
              IF reason # ""
              THEN [HandlerIdle EXCEPT !.pc = "done", !.cmd = cmd, !.outcome = reason,
                                       !.mustReject = rejectable]
              ELSE [HandlerIdle EXCEPT !.pc = IF cmd = "warn" THEN "load" ELSE "platform",
                                       !.cmd = cmd, !.target = target[1],
                                       !.mustReject = rejectable]]
        /\ UNCHANGED <<disk, now, apiVars, storeVars, listener>>

\* the except clause with the append moved out of the try block
OnApiErrorStillLogs(h) == [handlers[h] EXCEPT !.pc = "load"]

\* lines 206-210 (256-260): except ApiTelegramException: reply and return
OnApiError(h) == [handlers[h] EXCEPT !.pc = "done", !.outcome = "api_error"]

\* lines 184-189, 239: restrict_chat_member / ban_chat_member returns
PlatformSucceeds(h) ==
    /\ handlers[h].pc = "platform"
    /\ handlers' = [handlers EXCEPT ![h].pc = "load", ![h].acted = TRUE]
    /\ effects' = IF handlers[h].cmd = "mute"
                  THEN [effects EXCEPT !.muted = @ + 1]
                  ELSE [effects EXCEPT !.banned = @ + 1]
    /\ UNCHANGED <<disk, now, apiVars, storeVars, listener>>

\* the platform refuses the action: ApiTelegramException
PlatformRefuses(h) ==
    /\ handlers[h].pc = "platform"
    /\ handlers' = [handlers EXCEPT ![h] = OnApiError(h)]
    /\ UNCHANGED <<disk, now, apiVars, storeVars, effects, listener>>

\* the call fails below the API (connection error): the exception leaves the handler
PlatformUnreachable(h) ==
    /\ handlers[h].pc = "platform"
    /\ handlers' = [handlers EXCEPT ![h].pc = "done", ![h].outcome = "exception"]
    /\ UNCHANGED <<disk, now, apiVars, storeVars, effects, listener>>

\* log_punishment lines 92-109: build the entry, load the file, append in memory
LoadAndAppend(h) ==
    LET user == handlers[h].target
        entry == NewEntry(Some(1), Some(user), UsernameOf(user), "@mod",
                          ActionOf(handlers[h].cmd), "spam", now)
        key == target_key(Some(user), UsernameOf(user))
        log == _load(disk)
    IN  /\ handlers[h].pc = "load"
        /\ handlers' = [handlers EXCEPT ![h] =
              IF _load_raises(disk) # "" \/ AppendRaises(log, key) # ""
              THEN [@ EXCEPT !.pc = "done", !.outcome = "exception"]
              ELSE [@ EXCEPT !.pc = "save", !.key = key, !.entry = entry,
                             !.prior = disk, !.log = AppendEntry(log, key, entry)]]
        /\ UNCHANGED <<disk, now, apiVars, storeVars, effects, listener>>

\* a save that loads the file again and appends to what it finds
SavedDocReloaded(h) == AppendEntry(_load(disk), handlers[h].key, handlers[h].entry)

\* line 110: _save(log) writes the dict loaded at line 108
SavedDoc(h) == handlers[h].log

\* log_punishment line 110, then for /mute and /ban the reply.  A /warn handler
\* that has saved and not yet counted has been overlapped by this save.
SaveLog(h) ==
    /\ handlers[h].pc = "save"
    /\ disk' = _save(SavedDoc(h))
    /\ effects' = [effects EXCEPT !.lastSaver = h]
    /\ handlers' = [g \in Threads |->
          IF g = h
          THEN IF handlers[h].cmd = "warn"
               THEN [handlers[h] EXCEPT !.pc = "count", !.wrote = TRUE]
               ELSE [handlers[h] EXCEPT !.pc = "done", !.wrote = TRUE, !.outcome = "ok"]
          ELSE IF handlers[g].pc = "count"
               THEN [handlers[g] EXCEPT !.overlapped = TRUE]
               ELSE handlers[g]]
    /\ UNCHANGED <<now, apiVars, storeVars, listener>>

\* the count taken from the document loaded before the append
CountedFilePrior(h) == handlers[h].prior

\* line 145: user_warn_count loads the file as it is when the count is taken
CountedFile(h) == disk

\* warn_user lines 145-149: user_warn_count, then the reply with the total
CountAndReply(h) ==
    /\ handlers[h].pc = "count"
    /\ handlers' = [handlers EXCEPT ![h] =
          [@ EXCEPT !.pc = "done", !.outcome = "ok", !.counted = CountedFile(h),
                    !.total = user_warn_count(CountedFile(h), Some(1),
                                              Some(handlers[h].target), None, now)]]
    /\ UNCHANGED <<disk, now, apiVars, storeVars, effects, listener>>

\* the handler has returned; the thread is free again
Finish(h) ==
    /\ handlers[h].pc = "done"
    /\ handlers' = [handlers EXCEPT ![h] = HandlerIdle]
    /\ UNCHANGED <<disk, now, apiVars, storeVars, effects, listener>>

NextBot ==
    \E h \in Threads :
        \/ \E cmd \in Commands, ct \in ChatTypes, st \in Statuses, ent \in Entities,
              ok \in BOOLEAN, reply \in {None, Some(7)} :
              Receive(h, cmd, ct, st, ent, ok, reply)
        \/ PlatformSucceeds(h)
        \/ PlatformRefuses(h)
        \/ PlatformUnreachable(h)
        \/ LoadAndAppend(h)
        \/ SaveLog(h)
        \/ CountAndReply(h)
        \/ Finish(h)

SpecBot == InitBot /\ [][NextBot]_vars

\* rows of a document with the given action
RowsWith(doc, action) ==
    {r \in Rows(doc) : Get(doc[r[1]].items[r[2]], "action") = Some(action)}

\* C2: when two appends have loaded the same prior document and both have
\* completed, the persisted document is the prior one plus the entry of the append
\* that saved last alone: the entry saved first is gone.
C2_LostUpdate ==
    \A h1, h2 \in Threads :
        (/\ h1 # h2
         /\ handlers[h1].pc = "done" /\ handlers[h1].wrote
         /\ handlers[h2].pc = "done" /\ handlers[h2].wrote
         /\ handlers[h1].prior = handlers[h2].prior
         /\ effects.lastSaver = h2) =>
            /\ disk = ObjectFile(AppendEntry(_load(handlers[h2].prior),
                                             handlers[h2].key, handlers[h2].entry))
            /\ Cardinality(Rows(disk.doc))
                 = Cardinality(Rows(_load(handlers[h2].prior))) + 1

\* both appends completed from the same prior document and the entry of the one
\* that saved first is in no group of the persisted document
C2_Witness ==
    \E h1, h2 \in Threads :
        /\ h1 # h2
        /\ handlers[h1].pc = "done" /\ handlers[h1].wrote
        /\ handlers[h2].pc = "done" /\ handlers[h2].wrote
        /\ handlers[h1].prior = handlers[h2].prior
        /\ effects.lastSaver = h2
        /\ handlers[h1].entry # handlers[h2].entry
        /\ \A r \in Rows(disk.doc) : disk.doc[r[1]].items[r[2]] # handlers[h1].entry
        /\ \E r \in Rows(disk.doc) : disk.doc[r[1]].items[r[2]] = handlers[h2].entry

\* C8: a /mute or /ban handler reaches log_punishment only after its platform call
\* returned, so the log never holds more "muted" ("banned") entries than
\* restrictions (bans) the platform carried out.
C8_LogOnlyAfterPlatformSuccess ==
    /\ \A h \in Threads :
          (handlers[h].cmd \in {"mute", "ban"}
             /\ (handlers[h].pc \in {"load", "save"} \/ handlers[h].wrote))
          => handlers[h].acted
    /\ Cardinality(RowsWith(_load(disk), "muted")) <= effects.muted
    /\ Cardinality(RowsWith(_load(disk), "banned")) <= effects.banned

\* one /mute was refused by the platform and left no entry, another went through
\* and is the only "muted" entry
C8_Witness ==
    \E h1, h2 \in Threads :
        /\ handlers[h1].cmd = "mute" /\ handlers[h1].outcome = "api_error"
        /\ ~handlers[h1].wrote
        /\ handlers[h2].cmd = "mute" /\ handlers[h2].outcome = "ok" /\ handlers[h2].wrote
        /\ effects.muted = 1
        /\ Cardinality(RowsWith(_load(disk), "muted")) = 1

\* C9: a command sent outside a group, or by a sender who is not administrator or
\* creator (the lookup failing included), or with no target resolvable from a text
\* mention or a replied-to message, only gets a reply: the handler returns at once,
\* never calls the platform action, never writes the log, and the step that
\* rejects it leaves the backing file as it was.
C9_RejectedHasNoEffect ==
    /\ [](\A h \in Threads :
            handlers[h].mustReject =>
                /\ handlers[h].pc = "done"
                /\ handlers[h].outcome \in {"not_group", "not_admin", "no_target"}
                /\ ~handlers[h].wrote /\ ~handlers[h].acted)
    /\ [][\A h \in Threads :
            (~handlers[h].mustReject /\ handlers'[h].mustReject) =>
                /\ disk' = disk
                /\ effects'.muted = effects.muted
                /\ effects'.banned = effects.banned]_vars

\* a member who is no administrator was turned away while the log held an entry
C9_Witness ==
    \E h \in Threads :
        /\ handlers[h].mustReject /\ handlers[h].outcome = "not_admin"
        /\ disk = ObjectFile(OneRow)

----------------------------------------------------------------------------
(* The polling loop of main.py, lines 319-330 *)

\* line 330: time.sleep(5)
Backoff == 5

InitListen ==
    /\ disk \in {Absent, ObjectFile(OneRow)}
    /\ now = 1
    /\ call = NoCall
    /\ mem = EmptyDoc
    /\ passes = 0
    /\ memBefore = EmptyDoc
    /\ appends = 0
    /\ StoreAtRest
    /\ handlers = [h \in Threads |-> HandlerIdle]
    /\ effects = [received |-> 0, muted |-> 0, banned |-> 0, lastSaver |-> 0]
    /\ listener = [ListenerIdle EXCEPT !.pc = "loop"]

\* lines 320-322: the loop calls bot.infinity_polling
StartPolling ==
    /\ listener.pc = "loop"
    /\ listener' = [listener EXCEPT !.pc = "polling"]
    /\ UNCHANGED <<disk, now, apiVars, storeVars, handlers, effects>>

\* line 322: infinity_polling returns; while True calls it again at once
PollingReturns ==
    /\ listener.pc = "polling"
    /\ listener' = [listener EXCEPT !.pc = "loop"]
    /\ UNCHANGED <<disk, now, apiVars, storeVars, handlers, effects>>

\* lines 323-325: except KeyboardInterrupt: break
PollingInterrupted ==
    /\ listener.pc = "polling"
    /\ listener' = [listener EXCEPT !.pc = "exited", !.cause = "KeyboardInterrupt"]
    /\ UNCHANGED <<disk, now, apiVars, storeVars, handlers, effects>>

\* lines 326-330: polling raised an Exception (the errors of the network, of the
\* platform and of a handler are all Exceptions): print, then time.sleep(5)
\* begins.  The loop keeps no count; retries is the number of times this clause
\* ran, kept up to MaxRetries.
PollingCrashes ==
    /\ listener.pc = "polling"
    /\ listener' = [listener EXCEPT !.pc = "sleeping", !.slept = 0,
                                    !.retries = Min(@ + 1, MaxRetries),
                                    !.cause = "Exception"]
    /\ UNCHANGED <<disk, now, apiVars, storeVars, handlers, effects>>

\* line 330: one second of time.sleep(5) passes
SleepTick ==
    /\ listener.pc = "sleeping"
    /\ listener.slept < Backoff
    /\ listener' = [listener EXCEPT !.slept = @ + 1]
    /\ UNCHANGED <<disk, now, apiVars, storeVars, handlers, effects>>

\* line 330: time.sleep(5) returns and the loop goes round
Wake ==
    /\ listener.pc = "sleeping"
    /\ listener.slept = Backoff
    /\ listener' = [listener EXCEPT !.pc = "loop", !.slept = 0]
    /\ UNCHANGED <<disk, now, apiVars, storeVars, handlers, effects>>

\* line 330: Ctrl+C during time.sleep(5) is raised inside the except clause, where
\* no clause catches it
SleepInterrupted ==
    /\ listener.pc = "sleeping"
    /\ listener' = [listener EXCEPT !.pc = "exited", !.cause = "KeyboardInterrupt"]
    /\ UNCHANGED <<disk, now, apiVars, storeVars, handlers, effects>>

\* a /warn that polling hands to a worker thread, and the thread's steps
Serve(h) ==
    /\ listener.pc # "exited"
    /\ \/ /\ listener.pc = "polling"
          /\ \E st \in {"administrator", "member"} :
                Receive(h, "warn", "group", st, "text_mention", TRUE, None)
       \/ LoadAndAppend(h)
       \/ SaveLog(h)
       \/ CountAndReply(h)
       \/ Finish(h)

NextListen ==
    \/ StartPolling
    \/ PollingReturns
    \/ PollingInterrupted
    \/ PollingCrashes
    \/ SleepTick
    \/ Wake
    \/ SleepInterrupted
    \/ \E h \in Threads : Serve(h)

\* the main thread runs: a loop iteration that can start does start, and a sleep
\* that is not interrupted ends
SpecListen ==
    /\ InitListen
    /\ [][NextListen]_vars
    /\ WF_vars(StartPolling)
    /\ WF_vars(SleepTick)
    /\ WF_vars(Wake)

\* C11: whenever polling ends with an exception other than KeyboardInterrupt the
\* loop catches it and, after a backoff of at most Backoff seconds, polling is
\* started again (unless Ctrl+C ends the process first); the process leaves the
\* loop on KeyboardInterrupt only; and the number of retries stays below a bound.
C11_BoundedRetryLoop ==
    /\ [](listener.pc = "sleeping" =>
            <>(listener.pc = "polling"
               \/ (listener.pc = "exited" /\ listener.cause = "KeyboardInterrupt")))
    /\ [](listener.slept <= Backoff)
    /\ [](listener.pc = "exited" => listener.cause = "KeyboardInterrupt")
    /\ [](listener.retries < MaxRetries)

\* a /warn handler has sent its success reply
Replied(h) ==
    /\ handlers[h].pc = "done" /\ handlers[h].cmd = "warn"
    /\ handlers[h].outcome = "ok"

\* the total of the reply includes the entry the handler appended
IncludesOwn(h) ==
    /\ handlers[h].total >= 1
    /\ \E r \in Rows(_load(handlers[h].counted)) :
          _load(handlers[h].counted)[r[1]].items[r[2]] = handlers[h].entry

\* C15 as stated: whenever warn_user sends its success reply, the total it reports
\* includes the warning this command appended, under every interleaving with
\* other handlers that append to the log.
C15_TotalIncludesOwnWarn ==
    \A h \in Threads : Replied(h) => IncludesOwn(h)

\* C15 amended: the same when no other handler saves the log between this
\* handler's save and its count; the total is then the count of the document the
\* handler loaded plus 1.
C15_TotalIncludesOwnWarnUndisturbed ==
    \A h \in Threads :
        (Replied(h) /\ ~handlers[h].overlapped) =>
            /\ IncludesOwn(h)
            /\ handlers[h].total
                 = 1 + user_warn_count(handlers[h].prior, Some(1),
                                       Some(handlers[h].target), None, now)

\* a second /warn of the same target, run after the first had finished, replied
\* with a total of at least 3: the stored warn, the first command's and its own
C15_Witness ==
    \E h \in Threads :
        /\ Replied(h) /\ ~handlers[h].overlapped
        /\ handlers[h].total >= 3
        /\ effects.received = 2

====
